---- MODULE Spec2Model ----
(***************************************************************************)
(* Model of the Smart Citizen Kit collector (src/collector/collector.py):  *)
(* the poll-parse-write cycle poll_once, the run loop with its exponential *)
(* backoff, the reading normalizer parse_sensors and the shutdown flag.    *)
(*                                                                         *)
(* JSON values are records [t, v]:                                         *)
(*   t = "absent"  the key is not in the dict                              *)
(*   t = "null"    None                                                    *)
(*   t = "num"     the number v                                            *)
(*   t = "numstr"  a text that float() parses, to the number v             *)
(*   t = "str"     any other text: v = 0 is "", v >= 1 is the ISO-8601     *)
(*                 text of epoch second v, v = -1 is a text that is        *)
(*                 neither a number nor a timestamp ("abc")                *)
(***************************************************************************)
EXTENDS Integers, Sequences, FiniteSets, TLC

VARIABLES
    pc,                 \* position of the main thread in run()/poll_once()
    _shutdown_event,    \* threading.Event: TRUE once set
    consecutive_errors, \* local of run()
    wait,               \* local of run(): the last computed backoff wait
    _last_poll_ts,      \* global: ISO time of the last successful poll, or None
    _polls_total,       \* global: number of successful polls
    _last_reading_at,   \* global: last processed top-level timestamp, or None
    data,               \* local of poll_once(): the fetched document
    readings,           \* local of poll_once(): parse_sensors' result
    write_calls,        \* number of write_api.write calls the store received
    last_record,        \* the record of the cycle's write_api.write call
    closed,             \* number of client.close() calls
    now,                \* the wall clock, in loop iterations
    outcome,            \* how the current/last cycle ended
    pre,                \* the state when the current cycle began
    write_apis,         \* client.write_api() calls of the current cycle
    count,              \* local of poll_once(): write_to_influxdb's result
    handler,            \* the except clause of run() the cycle ended in
    slept,              \* the timeouts of the cycle's _shutdown_event.wait calls
    late_fetches,       \* fetches begun while _shutdown_event was set
    woken,              \* what the last _shutdown_event.wait returned
    stored_at,          \* top-level timestamp of the last cycle that stored
    hpc,                \* position of the health thread in do_GET
    h_path,             \* the path of the request the health thread handles
    h_last_poll,        \* do_GET: the value read from _last_poll_ts
    response,           \* the response do_GET sent
    served,             \* the committed PollState pairs when it was sent
    iso_in,             \* _iso_to_ns: the argument of the next call
    ns                  \* _iso_to_ns: the values returned so far

vars == <<pc, _shutdown_event, consecutive_errors, wait, _last_poll_ts,
          _polls_total, _last_reading_at, data, readings, write_calls,
          last_record, closed, now, outcome, pre, write_apis, count,
          handler, slept, late_fetches, woken, stored_at, hpc, h_path,
          h_last_poll, response, served, iso_in, ns>>

loopVars == <<pc, _shutdown_event, consecutive_errors, wait, _last_poll_ts,
              _polls_total, _last_reading_at, data, readings, write_calls,
              last_record, closed, now, outcome, pre, write_apis, count,
              handler, slept, late_fetches, woken,
              stored_at>>
healthVars == <<hpc, h_path, h_last_poll, response, served>>
isoVars == <<iso_in, ns>>

(***************************************************************************)
(* Bounds of the model.                                                    *)
(***************************************************************************)
MaxCycles == 4
MaxTs == 2
MaxAttempt == 60
MaxSensors == 2
IsoSpan == 200

POLL_INTERVAL_SECONDS == 60

(***************************************************************************)
(* JSON values.                                                            *)
(***************************************************************************)
Absent == [t |-> "absent", v |-> 0]
Null == [t |-> "null", v |-> 0]
Num(n) == [t |-> "num", v |-> n]
NumStr(n) == [t |-> "numstr", v |-> n]
Str(c) == [t |-> "str", v |-> c]
EmptyStr == Str(0)
Garbage == Str(-1)
Iso(k) == Str(k)

\* dict.get(key): an absent key reads as None
Get(x) == IF x.t = "absent" THEN Null ELSE x

\* dict.get(key, default)
GetOr(x, d) == IF x.t = "absent" THEN d ELSE x

\* Python truthiness of a JSON scalar
Truthy(x) ==
    CASE x.t = "null" -> FALSE
      [] x.t = "absent" -> FALSE
      [] x.t = "num" -> x.v # 0
      [] x.t = "str" -> x.v # 0
      [] OTHER -> TRUE

\* x or y
PyOr(x, y) == IF Truthy(x) THEN x ELSE y

Min(a, b) == IF a <= b THEN a ELSE b

(***************************************************************************)
(* config.py                                                               *)
(***************************************************************************)
SCK_DEVICE_ID == 19396

SENSOR_NAME_MAP ==
    (55 :> "temperature") @@ (56 :> "humidity") @@ (53 :> "noise_dba") @@
    (14 :> "light") @@ (58 :> "pressure") @@
    (214 :> "uv_a") @@ (215 :> "uv_b") @@ (216 :> "uv_c") @@
    (193 :> "pm_1") @@ (194 :> "pm_2_5") @@ (195 :> "pm_4") @@ (196 :> "pm_10") @@
    (197 :> "pn_0_5") @@ (198 :> "pn_1") @@ (199 :> "pn_2_5") @@ (200 :> "pn_4") @@
    (201 :> "pn_10") @@ (202 :> "typical_particle_size") @@
    (10 :> "battery") @@ (220 :> "wifi_rssi") @@ (221 :> "sd_card_present")

\* a lookup with a default name instead of None
SensorNameDefaulted(sid) ==
    IF sid.t = "num" /\ sid.v \in DOMAIN SENSOR_NAME_MAP
    THEN SENSOR_NAME_MAP[sid.v]
    ELSE "unknown"

\* SENSOR_NAME_MAP.get(sid): the name, or "" for None
SensorName(sid) ==
    IF sid.t = "num" /\ sid.v \in DOMAIN SENSOR_NAME_MAP
    THEN SENSOR_NAME_MAP[sid.v]
    ELSE ""

(***************************************************************************)
(* parse_sensors                                                           *)
(***************************************************************************)
\* float(value): raises ValueError on a text that is no number
FloatOk(value) == value.t \in {"num", "numstr"}

\* One pass of the for loop over sensors_raw from entry i on, with the
\* readings appended so far; the result says whether float() raised.
RECURSIVE ParseLoop(_, _, _, _)
ParseLoop(sensors_raw, top, i, acc) ==
    IF i > Len(sensors_raw) THEN [raised |-> FALSE, readings |-> acc]
    ELSE
      LET s == sensors_raw[i]
          sid == GetOr(s.id, Num(-1))
          sensor_name == SensorName(sid)
          value == Get(s.value)
          timestamp_str == PyOr(Get(s.last_reading_at), Get(top))
      IN  IF sensor_name = "" THEN ParseLoop(sensors_raw, top, i + 1, acc)
          ELSE IF value.t = "null" THEN ParseLoop(sensors_raw, top, i + 1, acc)
          ELSE IF timestamp_str.t = "null" THEN ParseLoop(sensors_raw, top, i + 1, acc)
          ELSE IF ~FloatOk(value) THEN [raised |-> TRUE, readings |-> <<>>]
          ELSE ParseLoop(sensors_raw, top, i + 1,
                         Append(acc, [sensor_id |-> sid.v,
                                      sensor_name |-> sensor_name,
                                      value |-> value.v,
                                      timestamp |-> timestamp_str]))

\* data.get("data", {}).get("sensors", []): None.get raises AttributeError,
\* iterating None raises TypeError
\* (data_t, sensors_t = "num" stand for a value of a wrong type)
parse_sensors(d) ==
    IF d.data_t \in {"null", "num"} THEN [raised |-> TRUE, readings |-> <<>>]
    ELSE IF d.data_t = "absent" \/ d.sensors_t = "absent"
         THEN [raised |-> FALSE, readings |-> <<>>]
    ELSE IF d.sensors_t \in {"null", "num"} THEN [raised |-> TRUE, readings |-> <<>>]
    ELSE ParseLoop(d.sensors, d.last_reading_at, 1, <<>>)

(***************************************************************************)
(* Fetched documents.                                                      *)
(***************************************************************************)
Doc(top, data_t, sensors_t, sensors) ==
    [last_reading_at |-> top, data_t |-> data_t,
     sensors_t |-> sensors_t, sensors |-> sensors]

\* {"last_reading_at": top, "data": {"sensors": sensors}}
DocOf(top, sensors) == Doc(top, "dict", "list", sensors)

\* no document: poll_once has not fetched yet
NoData == Doc(Absent, "nodata", "absent", <<>>)

Entry(id, value, ts) == [id |-> id, value |-> value, last_reading_at |-> ts]

\* data.get("last_reading_at")
DeviceReadingAt(d) == Get(d.last_reading_at)

\* the top-level timestamps the upstream returns in the loop
LoopTops == {Null, EmptyStr} \cup {Iso(k) : k \in 1..MaxTs}

\* the sensor lists the upstream returns in the loop
LoopSensors ==
    { <<Entry(Num(55), Num(214), Iso(1))>>,
      <<Entry(Num(55), Garbage, Absent), Entry(Num(56), Num(70), Iso(1))>>,
      <<Entry(Num(55), Num(214), Absent), Entry(Num(9999), Num(1), Absent),
        Entry(Num(56), Null, Absent)>> }

LoopPayloads ==
    {DocOf(top, ss) : top \in LoopTops, ss \in LoopSensors}
    \cup {Doc(top, "absent", "absent", <<>>) : top \in LoopTops}
    \cup {Doc(top, "null", "absent", <<>>) : top \in LoopTops}

(***************************************************************************)
(* _iso_to_ns and write_to_influxdb                                        *)
(***************************************************************************)
\* The timestamp texts. Text number k >= 1 spells, with a trailing Z, the
\* instant (k - 1) % IsoSpan seconds after the base instant number
\* (k - 1) \div IsoSpan + 1. The bases: a reading of 2026, the epoch, a leap
\* day, the instants where epoch seconds * 10^9 passes 2^53, 2^62 and 2^63,
\* and the end of year 9999.
IsoBases ==
    << [year |-> 2026, month |-> 2, day |-> 4, hour |-> 17, minute |-> 0, second |-> 47],
       [year |-> 1970, month |-> 1, day |-> 1, hour |-> 0, minute |-> 0, second |-> 0],
       [year |-> 2000, month |-> 2, day |-> 29, hour |-> 23, minute |-> 55, second |-> 0],
       [year |-> 1970, month |-> 4, day |-> 15, hour |-> 5, minute |-> 58, second |-> 0],
       [year |-> 2116, month |-> 2, day |-> 20, hour |-> 23, minute |-> 52, second |-> 0],
       [year |-> 2262, month |-> 4, day |-> 11, hour |-> 23, minute |-> 45, second |-> 0],
       [year |-> 9999, month |-> 12, day |-> 31, hour |-> 23, minute |-> 55, second |-> 0] >>

\* datetime.fromisoformat raises ValueError on a text that is no timestamp
IsIso(x) == x.t = "str" /\ x.v >= 1 /\ x.v <= Len(IsoBases) * IsoSpan

\* datetime.fromisoformat(iso_str.replace("Z", "+00:00")): the UTC date and
\* time the text spells
fromisoformat(iso_str) ==
    LET k == iso_str.v - 1
        b == IsoBases[(k \div IsoSpan) + 1]
        s == b.hour * 3600 + b.minute * 60 + b.second + (k % IsoSpan)
    IN  [b EXCEPT !.hour = s \div 3600, !.minute = (s % 3600) \div 60,
                  !.second = s % 60]

\* natural numbers beyond 2^31 as sequences of bits, lowest bit first
RECURSIVE FromNat(_)
FromNat(n) == IF n = 0 THEN <<>> ELSE <<n % 2>> \o FromNat(n \div 2)

\* bits * m + c
RECURSIVE MulAdd(_, _, _)
MulAdd(bits, m, c) ==
    IF bits = <<>> THEN FromNat(c)
    ELSE LET v == Head(bits) * m + c
         IN  <<v % 2>> \o MulAdd(Tail(bits), m, v \div 2)

\* a + b + c
RECURSIVE AddBits(_, _, _)
AddBits(a, b, c) ==
    IF a = <<>> THEN MulAdd(b, 1, c)
    ELSE IF b = <<>> THEN MulAdd(a, 1, c)
    ELSE LET v == Head(a) + Head(b) + c
         IN  <<v % 2>> \o AddBits(Tail(a), Tail(b), v \div 2)

\* the proleptic Gregorian ordinal of a date, day 1 being 0001-01-01
DaysBeforeMonth == <<0, 31, 59, 90, 120, 151, 181, 212, 243, 273, 304, 334>>
IsLeap(y) == y % 4 = 0 /\ (y % 100 # 0 \/ y % 400 = 0)
ToOrdinal(dt) ==
    LET y == dt.year - 1
    IN  y * 365 + (y \div 4) - (y \div 100) + (y \div 400)
        + DaysBeforeMonth[dt.month]
        + (IF dt.month > 2 /\ IsLeap(dt.year) THEN 1 ELSE 0)
        + dt.day

\* dt.timestamp() of an aware whole-second datetime: the seconds since
\* 1970-01-01T00:00:00Z, a float that holds them exactly (below 2^53)
EpochOrdinal == 719163
timestamp(dt) ==
    MulAdd(FromNat(ToOrdinal(dt) - EpochOrdinal), 86400,
           dt.hour * 3600 + dt.minute * 60 + dt.second)

\* the float nearest to a natural number: 53 significant bits, ties to even
DBL_MANT_DIG == 53
RoundToFloat(bits) ==
    IF Len(bits) <= DBL_MANT_DIG THEN bits
    ELSE LET shift == Len(bits) - DBL_MANT_DIG
             high == SubSeq(bits, shift + 1, Len(bits))
             sticky == \E i \in 1..(shift - 1) : bits[i] = 1
             up == bits[shift] = 1 /\ (sticky \/ high[1] = 1)
         IN  [i \in 1..shift |-> 0] \o (IF up THEN MulAdd(high, 1, 1) ELSE high)

\* x * 1_000_000_000 computed exactly
TimesGiga(bits) == MulAdd(MulAdd(MulAdd(bits, 1000, 0), 1000, 0), 1000, 0)

\* x * 1_000_000_000 computed in floats: the exact product, rounded
FloatTimesGiga(bits) == RoundToFloat(TimesGiga(bits))

\* int(dt.timestamp() * 1_000_000_000) of every text, as bits
IsoNs ==
    [k \in 1..(Len(IsoBases) * IsoSpan) |->
        FloatTimesGiga(timestamp(fromisoformat(Iso(k))))]

\* _iso_to_ns(iso_str): epoch nanoseconds of a timestamp text
_iso_to_ns(iso_str) == IsoNs[iso_str.v]

Line(r, device_id) ==
    [measurement |-> "sck_sensors", device_id |-> device_id,
     sensor_name |-> r.sensor_name, value |-> r.value,
     ts_ns |-> _iso_to_ns(r.timestamp)]

\* the lines in reverse order
LinesReversed(rs, device_id) ==
    [i \in 1..Len(rs) |-> Line(rs[Len(rs) + 1 - i], device_id)]

\* the lines of the record, one per reading, in order
Lines(rs, device_id) == [i \in 1..Len(rs) |-> Line(rs[i], device_id)]

\* whether the for loop of write_to_influxdb raises in _iso_to_ns
EncodeRaises(rs) == \E i \in 1..Len(rs) : ~IsIso(rs[i].timestamp)

\* the early return taken after client.write_api(): one write API obtained
WriteEmptyAfterApi(rs, device_id, store_ok) ==
    IF rs = <<>>
    THEN [raised |-> FALSE, apis |-> 1, writes |-> 0, record |-> <<>>,
          result |-> 0]
    ELSE IF EncodeRaises(rs)
    THEN [raised |-> TRUE, apis |-> 1, writes |-> 0, record |-> <<>>,
          result |-> 0]
    ELSE [raised |-> ~store_ok, apis |-> 1, writes |-> 1,
          record |-> Lines(rs, device_id),
          result |-> IF store_ok THEN Len(rs) ELSE 0]

\* write_to_influxdb(client, readings): whether it raised, the write_api()
\* and write_api.write calls it made, the record passed, the value returned;
\* store_ok says whether write_api.write returns or raises
write_to_influxdb(rs, device_id, store_ok) ==
    IF rs = <<>>
    THEN [raised |-> FALSE, apis |-> 0, writes |-> 0, record |-> <<>>,
          result |-> 0]
    ELSE IF EncodeRaises(rs)
    THEN [raised |-> TRUE, apis |-> 1, writes |-> 0, record |-> <<>>,
          result |-> 0]
    ELSE [raised |-> ~store_ok, apis |-> 1, writes |-> 1,
          record |-> Lines(rs, device_id),
          result |-> IF store_ok THEN Len(rs) ELSE 0]

(***************************************************************************)
(* _backoff_sleep                                                          *)
(***************************************************************************)
\* min(2**attempt, cap); 2**attempt is an unbounded integer, computed here
\* by doubling that stops once the cap is reached
RECURSIVE PowMin(_, _)
PowMin(attempt, cap) ==
    IF attempt = 0 THEN Min(1, cap)
    ELSE LET h == PowMin(attempt - 1, cap)
         IN  IF h >= cap THEN cap ELSE Min(2 * h, cap)

\* a ceiling of ten minutes instead of five
BackoffSleepCap600(attempt) == PowMin(attempt, 600)

_backoff_sleep(attempt) == PowMin(attempt, 300)

(***************************************************************************)
(* The run loop and poll_once.                                             *)
(***************************************************************************)
\* the globals and run()'s counter as a cycle begins, with the outcome and
\* the fetched top-level timestamp of the cycle before it
Snapshot ==
    [reading |-> _last_reading_at, poll_ts |-> _last_poll_ts,
     polls |-> _polls_total, errors |-> consecutive_errors,
     writes |-> write_calls, outcome |-> outcome,
     fetched |-> data.data_t # "nodata", ts |-> DeviceReadingAt(data)]

NoSnapshot ==
    [reading |-> Null, poll_ts |-> Null, polls |-> 0, errors |-> 0,
     writes |-> 0, outcome |-> "none", fetched |-> FALSE, ts |-> Null]

\* no store write has returned yet
NoStore == [t |-> "none", v |-> 0]

\* no response sent
NoResponse ==
    [code |-> 0, body |-> FALSE, status |-> "", last_poll |-> Null,
     polls_total |-> 0]

\* the module's globals and run()'s locals before the loop
InitState ==
    /\ _shutdown_event = FALSE
    /\ wait = 0
    /\ _last_poll_ts = Null
    /\ _polls_total = 0
    /\ _last_reading_at = Null
    /\ readings = <<>>
    /\ write_calls = 0
    /\ last_record = <<>>
    /\ closed = 0
    /\ now = 0
    /\ outcome = "none"
    /\ pre = NoSnapshot
    /\ write_apis = 0
    /\ count = 0
    /\ handler = "none"
    /\ slept = 0
    /\ late_fetches = 0
    /\ woken = FALSE
    /\ stored_at = NoStore
    /\ hpc = "idle"
    /\ h_path = "none"
    /\ h_last_poll = Null
    /\ response = NoResponse
    /\ served = {}
    /\ iso_in = Null
    /\ ns = <<>>

Init ==
    /\ pc = "loop"
    /\ consecutive_errors = 0
    /\ data = NoData
    /\ InitState

\* the wait computed from the counter before it is incremented
ExceptStaleWait(kind) ==
    /\ consecutive_errors' = consecutive_errors + 1
    /\ wait' = _backoff_sleep(consecutive_errors)
    /\ outcome' = kind
    /\ readings' = <<>>
    /\ handler' = "exception"
    /\ pc' = "wait_backoff"

\* except requests.RequestException: count the failure, compute the wait
ExceptRequest(kind) ==
    /\ consecutive_errors' = consecutive_errors + 1
    /\ wait' = _backoff_sleep(consecutive_errors + 1)
    /\ outcome' = kind
    /\ readings' = <<>>
    /\ handler' = "request"
    /\ pc' = "wait_backoff"

\* except Exception: count the failure, compute the wait
Except(kind) ==
    /\ consecutive_errors' = consecutive_errors + 1
    /\ wait' = _backoff_sleep(consecutive_errors + 1)
    /\ outcome' = kind
    /\ readings' = <<>>
    /\ handler' = "exception"
    /\ pc' = "wait_backoff"

\* poll_once returns without writing
Return(kind) ==
    /\ outcome' = kind
    /\ readings' = <<>>
    /\ pc' = "reset"

\* a loop that tests nothing: a cycle begins whatever the flag holds
LoopEnterIgnoringFlag ==
    /\ pc = "loop"
    /\ now < MaxCycles
    /\ now' = now + 1
    /\ pre' = Snapshot
    /\ data' = NoData
    /\ readings' = <<>>
    /\ last_record' = <<>>
    /\ outcome' = "running"
    /\ write_apis' = 0
    /\ count' = 0
    /\ handler' = "none"
    /\ slept' = 0
    /\ pc' = "poll"
    /\ UNCHANGED <<_shutdown_event, consecutive_errors, wait, _last_poll_ts,
                   _polls_total, _last_reading_at, write_calls, closed,
                   late_fetches, woken, stored_at>>
    /\ UNCHANGED <<healthVars, isoVars>>

\* while not _shutdown_event.is_set(): a new cycle begins, or the loop ends
LoopEnter ==
    /\ pc = "loop"
    /\ ~_shutdown_event
    /\ now < MaxCycles
    /\ now' = now + 1
    /\ pre' = Snapshot
    /\ data' = NoData
    /\ readings' = <<>>
    /\ last_record' = <<>>
    /\ outcome' = "running"
    /\ write_apis' = 0
    /\ count' = 0
    /\ handler' = "none"
    /\ slept' = 0
    /\ pc' = "poll"
    /\ UNCHANGED <<_shutdown_event, consecutive_errors, wait, _last_poll_ts,
                   _polls_total, _last_reading_at, write_calls, closed,
                   late_fetches, woken, stored_at>>
    /\ UNCHANGED <<healthVars, isoVars>>

\* the loop also gives up after two consecutive failures
LoopExitOnErrors ==
    /\ pc = "loop"
    /\ _shutdown_event \/ consecutive_errors >= 2
    /\ pc' = "close"
    /\ UNCHANGED <<_shutdown_event, consecutive_errors, wait, _last_poll_ts,
                   _polls_total, _last_reading_at, data, readings, write_calls,
                   last_record, closed, now, outcome, pre>>
    /\ UNCHANGED <<write_apis, count, handler, slept, late_fetches, woken,
                   stored_at>>
    /\ UNCHANGED <<healthVars, isoVars>>

\* while not _shutdown_event.is_set() finds the flag set: the loop ends
LoopExit ==
    /\ pc = "loop"
    /\ _shutdown_event
    /\ pc' = "close"
    /\ UNCHANGED <<_shutdown_event, consecutive_errors, wait, _last_poll_ts,
                   _polls_total, _last_reading_at, data, readings, write_calls,
                   last_record, closed, now, outcome, pre>>
    /\ UNCHANGED <<write_apis, count, handler, slept, late_fetches, woken,
                   stored_at>>
    /\ UNCHANGED <<healthVars, isoVars>>

\* poll_once(client) is called and fetch_device_data sends its request
FetchBegin ==
    /\ pc = "poll"
    /\ late_fetches' = late_fetches + (IF _shutdown_event THEN 1 ELSE 0)
    /\ pc' = "fetch"
    /\ UNCHANGED <<_shutdown_event, consecutive_errors, wait, _last_poll_ts,
                   _polls_total, _last_reading_at, data, readings, write_calls,
                   last_record, closed, now, outcome, pre, write_apis, count,
                   handler, slept, woken, stored_at>>
    /\ UNCHANGED <<healthVars, isoVars>>

\* fetch_device_data returns a document
FetchReturn ==
    /\ pc = "fetch"
    /\ \E d \in LoopPayloads : data' = d
    /\ pc' = "dedup"
    /\ UNCHANGED <<_shutdown_event, consecutive_errors, wait, _last_poll_ts,
                   _polls_total, _last_reading_at, readings, write_calls,
                   last_record, closed, now, outcome, pre>>
    /\ UNCHANGED <<write_apis, count, handler, slept, late_fetches, woken,
                   stored_at>>
    /\ UNCHANGED <<healthVars, isoVars>>

\* polls counted as they are attempted, not as they succeed
FetchRaiseCounted ==
    /\ pc = "fetch"
    /\ Except("fetch_error")
    /\ _polls_total' = _polls_total + 1
    /\ UNCHANGED <<_shutdown_event, _last_poll_ts,
                   _last_reading_at, data, write_calls, last_record, closed,
                   now, pre>>
    /\ UNCHANGED <<write_apis, count, slept, late_fetches, woken,
                   stored_at>>
    /\ UNCHANGED <<healthVars, isoVars>>

\* fetch_device_data raises (network or HTTP error)
FetchRaise ==
    /\ pc = "fetch"
    /\ \/ ExceptRequest("fetch_error")
       \/ Except("fetch_error")
    /\ UNCHANGED <<_shutdown_event, _last_poll_ts, _polls_total,
                   _last_reading_at, data, write_calls, last_record, closed,
                   now, pre>>
    /\ UNCHANGED <<write_apis, count, slept, late_fetches, woken,
                   stored_at>>
    /\ UNCHANGED <<healthVars, isoVars>>

\* the duplicate test without the truthiness guard
IsDuplicateByEquality(device_reading_at, last) ==
    device_reading_at = last

\* the duplicate test of poll_once
IsDuplicate(device_reading_at, last) ==
    Truthy(device_reading_at) /\ device_reading_at = last

Dedup ==
    /\ pc = "dedup"
    /\ IF IsDuplicate(DeviceReadingAt(data), _last_reading_at)
       THEN Return("duplicate")
       ELSE pc' = "parse" /\ UNCHANGED <<outcome, readings>>
    /\ UNCHANGED <<_shutdown_event, consecutive_errors, wait, _last_poll_ts,
                   _polls_total, _last_reading_at, data, write_calls,
                   last_record, closed, now, pre>>
    /\ UNCHANGED <<write_apis, count, handler, slept, late_fetches, woken,
                   stored_at>>
    /\ UNCHANGED <<healthVars, isoVars>>

\* an empty normalized set marks the fetched timestamp as seen
ParseEmptyMarksSeen ==
    /\ pc = "parse"
    /\ LET r == parse_sensors(data)
       IN  IF r.raised
           THEN Except("parse_error") /\ UNCHANGED _last_reading_at
           ELSE /\ IF r.readings = <<>>
                   THEN /\ Return("empty")
                        /\ _last_reading_at' = DeviceReadingAt(data)
                   ELSE /\ readings' = r.readings
                        /\ pc' = "write"
                        /\ UNCHANGED <<outcome, _last_reading_at>>
                /\ UNCHANGED <<consecutive_errors, wait, handler>>
    /\ UNCHANGED <<_shutdown_event, _last_poll_ts, _polls_total,
                   data, write_calls, last_record, closed, now, pre>>
    /\ UNCHANGED <<write_apis, count, slept, late_fetches, woken,
                   stored_at>>
    /\ UNCHANGED <<healthVars, isoVars>>

\* readings = parse_sensors(data); if not readings: return
Parse ==
    /\ pc = "parse"
    /\ LET r == parse_sensors(data)
       IN  IF r.raised
           THEN Except("parse_error")
           ELSE /\ IF r.readings = <<>>
                   THEN Return("empty")
                   ELSE /\ readings' = r.readings
                        /\ pc' = "write"
                        /\ UNCHANGED outcome
                /\ UNCHANGED <<consecutive_errors, wait, handler>>
    /\ UNCHANGED <<_shutdown_event, _last_poll_ts, _polls_total,
                   _last_reading_at, data, write_calls, last_record, closed,
                   now, pre>>
    /\ UNCHANGED <<write_apis, count, slept, late_fetches, woken,
                   stored_at>>
    /\ UNCHANGED <<healthVars, isoVars>>

\* write_to_influxdb raises before the store is called: _iso_to_ns fails
EncodeRaise ==
    /\ pc = "write"
    /\ readings # <<>>
    /\ EncodeRaises(readings)
    /\ Except("encode_error")
    /\ UNCHANGED <<_shutdown_event, _last_poll_ts, _polls_total,
                   _last_reading_at, data, write_calls, last_record, closed,
                   now, pre>>
    /\ write_apis' = write_apis + 1
    /\ UNCHANGED <<count, slept, late_fetches, woken, stored_at>>
    /\ UNCHANGED <<healthVars, isoVars>>

\* write_api.write is called with the record and returns
WriteReturn ==
    /\ pc = "write"
    /\ readings # <<>>
    /\ ~EncodeRaises(readings)
    /\ write_calls' = write_calls + 1
    /\ last_record' = Lines(readings, SCK_DEVICE_ID)
    /\ pc' = "set_reading"
    /\ UNCHANGED <<_shutdown_event, consecutive_errors, wait, _last_poll_ts,
                   _polls_total, _last_reading_at, data, readings, closed, now,
                   outcome, pre>>
    /\ write_apis' = write_apis + 1
    /\ count' = Len(readings)
    /\ UNCHANGED <<handler, slept, late_fetches, woken>>
    /\ stored_at' = DeviceReadingAt(data)
    /\ UNCHANGED <<healthVars, isoVars>>

\* the last-seen timestamp recorded before the write is attempted
WriteRaiseAfterRecording ==
    /\ pc = "write"
    /\ readings # <<>>
    /\ ~EncodeRaises(readings)
    /\ write_calls' = write_calls + 1
    /\ _last_reading_at' = DeviceReadingAt(data)
    /\ Except("write_error")
    /\ UNCHANGED <<_shutdown_event, _last_poll_ts, _polls_total,
                   data, last_record, closed, now, pre>>
    /\ write_apis' = write_apis + 1
    /\ UNCHANGED <<count, slept, late_fetches, woken, stored_at>>
    /\ UNCHANGED <<healthVars, isoVars>>

\* write_api.write raises after the timestamp was recorded as last seen
WriteRaiseMarksSeen ==
    /\ pc = "write"
    /\ readings # <<>>
    /\ ~EncodeRaises(readings)
    /\ write_calls' = write_calls + 1
    /\ _last_reading_at' = DeviceReadingAt(data)
    /\ Except("write_error")
    /\ UNCHANGED <<_shutdown_event, _last_poll_ts, _polls_total,
                   data, last_record, closed, now, pre>>
    /\ write_apis' = write_apis + 1
    /\ UNCHANGED <<count, slept, late_fetches, woken, stored_at>>
    /\ UNCHANGED <<healthVars, isoVars>>

\* write_api.write is called with the record and raises
WriteRaise ==
    /\ pc = "write"
    /\ readings # <<>>
    /\ ~EncodeRaises(readings)
    /\ write_calls' = write_calls + 1
    /\ Except("write_error")
    /\ UNCHANGED <<_shutdown_event, _last_poll_ts, _polls_total,
                   _last_reading_at, data, last_record, closed, now, pre>>
    /\ write_apis' = write_apis + 1
    /\ UNCHANGED <<count, slept, late_fetches, woken, stored_at>>
    /\ UNCHANGED <<healthVars, isoVars>>

\* the assignment made to a local: the global keeps its value
SetReadingLocal ==
    /\ pc = "set_reading"
    /\ pc' = "set_poll_ts"
    /\ UNCHANGED <<_shutdown_event, consecutive_errors, wait, _last_poll_ts,
                   _polls_total, _last_reading_at, data, readings, write_calls,
                   last_record, closed, now, outcome, pre>>
    /\ UNCHANGED <<write_apis, count, handler, slept, late_fetches, woken,
                   stored_at>>
    /\ UNCHANGED <<healthVars, isoVars>>

\* _last_reading_at = device_reading_at
SetReading ==
    /\ pc = "set_reading"
    /\ _last_reading_at' = DeviceReadingAt(data)
    /\ pc' = "set_poll_ts"
    /\ UNCHANGED <<_shutdown_event, consecutive_errors, wait, _last_poll_ts,
                   _polls_total, data, readings, write_calls, last_record,
                   closed, now, outcome, pre>>
    /\ UNCHANGED <<write_apis, count, handler, slept, late_fetches, woken,
                   stored_at>>
    /\ UNCHANGED <<healthVars, isoVars>>

\* the poll time taken from the reading's timestamp instead of the clock
SetPollTsFromReading ==
    /\ pc = "set_poll_ts"
    /\ _last_poll_ts' = _last_reading_at
    /\ pc' = "inc_polls"
    /\ UNCHANGED <<_shutdown_event, consecutive_errors, wait, _polls_total,
                   _last_reading_at, data, readings, write_calls, last_record,
                   closed, now, outcome, pre>>
    /\ UNCHANGED <<write_apis, count, handler, slept, late_fetches, woken,
                   stored_at>>
    /\ UNCHANGED <<healthVars, isoVars>>

\* _last_poll_ts = datetime.now(timezone.utc).isoformat()
SetPollTs ==
    /\ pc = "set_poll_ts"
    /\ _last_poll_ts' = Iso(now)
    /\ pc' = "inc_polls"
    /\ UNCHANGED <<_shutdown_event, consecutive_errors, wait, _polls_total,
                   _last_reading_at, data, readings, write_calls, last_record,
                   closed, now, outcome, pre>>
    /\ UNCHANGED <<write_apis, count, handler, slept, late_fetches, woken,
                   stored_at>>
    /\ UNCHANGED <<healthVars, isoVars>>

\* _polls_total += 1, and poll_once returns
IncPolls ==
    /\ pc = "inc_polls"
    /\ _polls_total' = _polls_total + 1
    /\ Return("written")
    /\ UNCHANGED <<_shutdown_event, consecutive_errors, wait, _last_poll_ts,
                   _last_reading_at, data, write_calls, last_record, closed,
                   now, pre>>
    /\ UNCHANGED <<write_apis, count, handler, slept, late_fetches, woken,
                   stored_at>>
    /\ UNCHANGED <<healthVars, isoVars>>

\* consecutive_errors = 0 after poll_once returned
Reset ==
    /\ pc = "reset"
    /\ consecutive_errors' = 0
    /\ pc' = "wait_interval"
    /\ UNCHANGED <<_shutdown_event, wait, _last_poll_ts, _polls_total,
                   _last_reading_at, data, readings, write_calls, last_record,
                   closed, now, outcome, pre>>
    /\ UNCHANGED <<write_apis, count, handler, slept, late_fetches, woken,
                   stored_at>>
    /\ UNCHANGED <<healthVars, isoVars>>

\* the interval wait as time.sleep(POLL_INTERVAL_SECONDS): it runs to
\* completion whatever the flag holds
WaitIntervalSleeps ==
    /\ pc = "wait_interval"
    /\ pc' = "loop"
    /\ UNCHANGED <<_shutdown_event, consecutive_errors, wait, _last_poll_ts,
                   _polls_total, _last_reading_at, data, readings, write_calls,
                   last_record, closed, now, outcome, pre>>
    /\ slept' = slept + POLL_INTERVAL_SECONDS
    /\ woken' = FALSE
    /\ UNCHANGED stored_at
    /\ UNCHANGED <<write_apis, count, handler, late_fetches>>
    /\ UNCHANGED <<healthVars, isoVars>>

\* _shutdown_event.wait(config.POLL_INTERVAL_SECONDS) returns
WaitInterval ==
    /\ pc = "wait_interval"
    /\ pc' = "loop"
    /\ UNCHANGED <<_shutdown_event, consecutive_errors, wait, _last_poll_ts,
                   _polls_total, _last_reading_at, data, readings, write_calls,
                   last_record, closed, now, outcome, pre>>
    /\ slept' = slept + POLL_INTERVAL_SECONDS
    /\ woken' = _shutdown_event
    /\ UNCHANGED stored_at
    /\ UNCHANGED <<write_apis, count, handler, late_fetches>>
    /\ UNCHANGED <<healthVars, isoVars>>

\* the backoff wait without the continue: the interval wait follows it
WaitBackoffThenInterval ==
    /\ pc = "wait_backoff"
    /\ pc' = "wait_interval"
    /\ UNCHANGED <<_shutdown_event, consecutive_errors, wait, _last_poll_ts,
                   _polls_total, _last_reading_at, data, readings, write_calls,
                   last_record, closed, now, outcome, pre>>
    /\ slept' = slept + wait
    /\ woken' = _shutdown_event
    /\ UNCHANGED stored_at
    /\ UNCHANGED <<write_apis, count, handler, late_fetches>>
    /\ UNCHANGED <<healthVars, isoVars>>

\* the backoff wait as time.sleep(wait): it runs to completion whatever the
\* flag holds
WaitBackoffSleeps ==
    /\ pc = "wait_backoff"
    /\ pc' = "loop"
    /\ UNCHANGED <<_shutdown_event, consecutive_errors, wait, _last_poll_ts,
                   _polls_total, _last_reading_at, data, readings, write_calls,
                   last_record, closed, now, outcome, pre>>
    /\ slept' = slept + wait
    /\ woken' = FALSE
    /\ UNCHANGED stored_at
    /\ UNCHANGED <<write_apis, count, handler, late_fetches>>
    /\ UNCHANGED <<healthVars, isoVars>>

\* _shutdown_event.wait(timeout=wait); continue
WaitBackoff ==
    /\ pc = "wait_backoff"
    /\ pc' = "loop"
    /\ UNCHANGED <<_shutdown_event, consecutive_errors, wait, _last_poll_ts,
                   _polls_total, _last_reading_at, data, readings, write_calls,
                   last_record, closed, now, outcome, pre>>
    /\ slept' = slept + wait
    /\ woken' = _shutdown_event
    /\ UNCHANGED stored_at
    /\ UNCHANGED <<write_apis, count, handler, late_fetches>>
    /\ UNCHANGED <<healthVars, isoVars>>

\* run() returns without closing the client
CloseSkipped ==
    /\ pc = "close"
    /\ pc' = "done"
    /\ UNCHANGED <<_shutdown_event, consecutive_errors, wait, _last_poll_ts,
                   _polls_total, _last_reading_at, data, readings, write_calls,
                   last_record, closed, now, outcome, pre>>
    /\ UNCHANGED <<write_apis, count, handler, slept, late_fetches, woken,
                   stored_at>>
    /\ UNCHANGED <<healthVars, isoVars>>

\* client.close() after the loop
Close ==
    /\ pc = "close"
    /\ closed' = closed + 1
    /\ pc' = "done"
    /\ UNCHANGED <<_shutdown_event, consecutive_errors, wait, _last_poll_ts,
                   _polls_total, _last_reading_at, data, readings, write_calls,
                   last_record, now, outcome, pre>>
    /\ UNCHANGED <<write_apis, count, handler, slept, late_fetches, woken,
                   stored_at>>
    /\ UNCHANGED <<healthVars, isoVars>>

\* SIGTERM or SIGINT: _shutdown_event.set()
_handle_signal ==
    /\ pc # "done"
    /\ _shutdown_event' = TRUE
    /\ UNCHANGED <<pc, consecutive_errors, wait, _last_poll_ts, _polls_total,
                   _last_reading_at, data, readings, write_calls, last_record,
                   closed, now, outcome, pre>>
    /\ UNCHANGED <<write_apis, count, handler, slept, late_fetches, woken,
                   stored_at>>
    /\ UNCHANGED <<healthVars, isoVars>>

Next ==
    \/ LoopEnter
    \/ LoopExit
    \/ FetchBegin
    \/ FetchReturn
    \/ FetchRaise
    \/ Dedup
    \/ Parse
    \/ EncodeRaise
    \/ WriteReturn
    \/ WriteRaise
    \/ SetReading
    \/ SetPollTs
    \/ IncPolls
    \/ Reset
    \/ WaitInterval
    \/ WaitBackoff
    \/ Close
    \/ _handle_signal

Spec == Init /\ [][Next]_vars

(***************************************************************************)
(* _backoff_sleep alone: one call on any attempt number.                   *)
(***************************************************************************)
InitBackoff ==
    /\ pc = "backoff_call"
    /\ consecutive_errors \in 0..MaxAttempt
    /\ data = NoData
    /\ InitState

BackoffCall ==
    /\ pc = "backoff_call"
    /\ wait' = _backoff_sleep(consecutive_errors)
    /\ pc' = "backoff_ret"
    /\ UNCHANGED <<_shutdown_event, consecutive_errors, _last_poll_ts,
                   _polls_total, _last_reading_at, data, readings, write_calls,
                   last_record, closed, now, outcome, pre>>
    /\ UNCHANGED <<write_apis, count, handler, slept, late_fetches, woken,
                   stored_at>>
    /\ UNCHANGED <<healthVars, isoVars>>

NextBackoff == BackoffCall

SpecBackoff == InitBackoff /\ [][NextBackoff]_vars

(***************************************************************************)
(* parse_sensors alone: one call on any document of a bounded shape.       *)
(***************************************************************************)
ParseIds == {Absent, Num(55), Num(9999)}
ParseValues == {Absent, Null, Num(214), NumStr(215), Garbage}
ParseEntryTs == {Absent, EmptyStr, Iso(2)}
ParseTops == {Absent, Null, EmptyStr, Iso(1)}

ParseEntries ==
    {Entry(id, value, ts) : id \in ParseIds, value \in ParseValues,
                            ts \in ParseEntryTs}

RECURSIVE ListsUpTo(_, _)
ListsUpTo(S, n) ==
    IF n = 0 THEN {<<>>}
    ELSE LET shorter == ListsUpTo(S, n - 1)
         IN  shorter \cup {Append(l, e) : l \in {x \in shorter : Len(x) = n - 1},
                                          e \in S}

ParsePayloads(n) ==
    {DocOf(top, ss) : top \in ParseTops, ss \in ListsUpTo(ParseEntries, n)}
    \cup {Doc(top, data_t, "absent", <<>>) :
             top \in ParseTops, data_t \in {"absent", "null", "num"}}
    \cup {Doc(top, "dict", sensors_t, <<>>) :
             top \in ParseTops, sensors_t \in {"absent", "null", "num"}}

InitParse ==
    /\ pc = "parse_call"
    /\ consecutive_errors = 0
    /\ data \in ParsePayloads(MaxSensors)
    /\ InitState

ParseCall ==
    /\ pc = "parse_call"
    /\ LET r == parse_sensors(data)
       IN  /\ readings' = r.readings
           /\ outcome' = IF r.raised THEN "raised" ELSE "returned"
    /\ pc' = "parse_ret"
    /\ UNCHANGED <<_shutdown_event, consecutive_errors, wait, _last_poll_ts,
                   _polls_total, _last_reading_at, data, write_calls,
                   last_record, closed, now, pre>>
    /\ UNCHANGED <<write_apis, count, handler, slept, late_fetches, woken,
                   stored_at>>
    /\ UNCHANGED <<healthVars, isoVars>>

NextParse == ParseCall

SpecParse == InitParse /\ [][NextParse]_vars

(***************************************************************************)
(* _iso_to_ns on its own: the conversion of t and of t + 60 seconds        *)
(***************************************************************************)
\* the texts whose instant 60 seconds later is spelled by a text, too
IsoInputs ==
    {Iso(k) : k \in {j \in 1..(Len(IsoBases) * IsoSpan) :
                        (j - 1) % IsoSpan < IsoSpan - 60}}

\* the text of the instant 60 seconds after the one iso_str spells
Plus60(iso_str) == Iso(iso_str.v + 60)

InitIso ==
    /\ pc = "iso"
    /\ _shutdown_event = FALSE
    /\ consecutive_errors = 0
    /\ wait = 0
    /\ _last_poll_ts = Null
    /\ _polls_total = 0
    /\ _last_reading_at = Null
    /\ data = NoData
    /\ readings = <<>>
    /\ write_calls = 0
    /\ last_record = <<>>
    /\ closed = 0
    /\ now = 0
    /\ outcome = "none"
    /\ pre = NoSnapshot
    /\ write_apis = 0
    /\ count = 0
    /\ handler = "none"
    /\ slept = 0
    /\ late_fetches = 0
    /\ woken = FALSE
    /\ stored_at = NoStore
    /\ hpc = "idle"
    /\ h_path = "none"
    /\ h_last_poll = Null
    /\ response = NoResponse
    /\ served = {}
    /\ iso_in \in IsoInputs
    /\ ns = <<>>

\* _iso_to_ns is called with t, then with t + 60 seconds
IsoCall ==
    /\ pc = "iso"
    /\ Len(ns) < 2
    /\ ns' = Append(ns, _iso_to_ns(IF ns = <<>> THEN iso_in ELSE Plus60(iso_in)))
    /\ UNCHANGED <<pc, _shutdown_event, consecutive_errors, wait, _last_poll_ts,
                   _polls_total, _last_reading_at, data, readings, write_calls,
                   last_record, closed, now, outcome, pre, write_apis, count,
                   handler, slept, late_fetches, woken, stored_at, iso_in>>
    /\ UNCHANGED healthVars

NextIso == IsoCall

SpecIso == InitIso /\ [][NextIso]_vars

(***************************************************************************)
(* Properties.                                                             *)
(***************************************************************************)
(***************************************************************************)
(* write_to_influxdb on its own, and every call the program can make       *)
(***************************************************************************)
WriteTimestamps == {Iso(1), Iso(2), Iso(4 * IsoSpan + 100), EmptyStr}

WriteReadings ==
    {[sensor_id |-> sid, sensor_name |-> SensorName(Num(sid)), value |-> value,
      timestamp |-> ts] : sid \in {55, 53}, value \in {214, 0},
                          ts \in WriteTimestamps}

InitWrite ==
    /\ pc = "write_call"
    /\ consecutive_errors = 0
    /\ data = NoData
    /\ _shutdown_event = FALSE
    /\ wait = 0
    /\ _last_poll_ts = Null
    /\ _polls_total = 0
    /\ _last_reading_at = Null
    /\ readings \in ListsUpTo(WriteReadings, MaxSensors)
    /\ write_calls = 0
    /\ last_record = <<>>
    /\ closed = 0
    /\ now = 0
    /\ outcome = "none"
    /\ pre = NoSnapshot
    /\ write_apis = 0
    /\ count = 0
    /\ handler = "none"
    /\ slept = 0
    /\ late_fetches = 0
    /\ woken = FALSE
    /\ stored_at = NoStore
    /\ hpc = "idle"
    /\ h_path = "none"
    /\ h_last_poll = Null
    /\ response = NoResponse
    /\ served = {}
    /\ iso_in = Null
    /\ ns = <<>>

WriteCall ==
    /\ pc = "write_call"
    /\ \E store_ok \in BOOLEAN :
         LET r == write_to_influxdb(readings, SCK_DEVICE_ID, store_ok)
         IN  /\ write_apis' = write_apis + r.apis
             /\ write_calls' = write_calls + r.writes
             /\ last_record' = r.record
             /\ count' = r.result
             /\ outcome' = IF r.raised THEN "raised" ELSE "returned"
    /\ pc' = "write_ret"
    /\ UNCHANGED <<_shutdown_event, consecutive_errors, wait, _last_poll_ts,
                   _polls_total, _last_reading_at, data, readings, closed, now,
                   pre, handler, slept, late_fetches, woken, stored_at>>
    /\ UNCHANGED <<healthVars, isoVars>>

NextWrite == WriteCall

SpecWrite == InitWrite /\ [][NextWrite]_vars

\* the run loop together with direct calls of write_to_influxdb
SpecCalls == (Init \/ InitWrite) /\ [][Next \/ NextWrite]_vars

(***************************************************************************)
(* The health thread beside the run loop                                   *)
(***************************************************************************)
HealthCycles == 2
HealthPaths == {"/health", "/"}

\* the PollState pairs a completed cycle left: the pair held when the cycle
\* in flight began and, when no cycle is in flight, the pair held now. (An
\* older pair has a smaller polls_total than any value read now.)
Committed ==
    {<<pre.poll_ts, pre.polls>>}
    \cup (IF pc \in {"loop", "reset", "wait_interval", "wait_backoff",
                     "close", "done"}
          THEN {<<_last_poll_ts, _polls_total>>} ELSE {})

\* _run_health_server: while not _shutdown_event.is_set()
HealthLoop ==
    /\ hpc = "idle"
    /\ ~_shutdown_event
    /\ hpc' = "accept"
    /\ UNCHANGED <<h_path, h_last_poll, response, served>>
    /\ UNCHANGED <<loopVars, isoVars>>

\* the while test finds the flag set: server.server_close()
HealthStop ==
    /\ hpc = "idle"
    /\ _shutdown_event
    /\ hpc' = "stopped"
    /\ UNCHANGED <<h_path, h_last_poll, response, served>>
    /\ UNCHANGED <<loopVars, isoVars>>

\* server.handle_request() returns after server.timeout with no request
HealthTimeout ==
    /\ hpc = "accept"
    /\ hpc' = "idle"
    /\ UNCHANGED <<h_path, h_last_poll, response, served>>
    /\ UNCHANGED <<loopVars, isoVars>>

\* server.handle_request() takes a GET request and calls do_GET
HealthRequest ==
    /\ hpc = "accept"
    /\ \E path \in HealthPaths : h_path' = path
    /\ hpc' = "get"
    /\ response' = NoResponse
    /\ served' = {}
    /\ UNCHANGED h_last_poll
    /\ UNCHANGED <<loopVars, isoVars>>

\* do_GET counts the request it answers in _polls_total
DoGetCountsRequest ==
    /\ hpc = "get"
    /\ h_path = "/health"
    /\ h_last_poll' = _last_poll_ts
    /\ hpc' = "read_polls"
    /\ _polls_total' = _polls_total + 1
    /\ UNCHANGED <<h_path, response, served>>
    /\ UNCHANGED <<pc, _shutdown_event, consecutive_errors, wait,
                   _last_poll_ts, _last_reading_at, data, readings,
                   write_calls, last_record, closed, now, outcome, pre,
                   write_apis, count, handler, slept, late_fetches, woken, stored_at>>
    /\ UNCHANGED isoVars

\* do_GET on /health: the dict display reads _last_poll_ts
DoGetReadLastPoll ==
    /\ hpc = "get"
    /\ h_path = "/health"
    /\ h_last_poll' = _last_poll_ts
    /\ hpc' = "read_polls"
    /\ UNCHANGED <<h_path, response, served>>
    /\ UNCHANGED <<loopVars, isoVars>>

\* do_GET answers only while no fetch or write of the poll cycle is in flight
DoGetRespondBetweenCalls ==
    /\ hpc = "read_polls"
    /\ pc \notin {"fetch", "write"}
    /\ response' = [code |-> 200, body |-> TRUE, status |-> "ok",
                    last_poll |-> h_last_poll, polls_total |-> _polls_total]
    /\ served' = Committed
    /\ h_last_poll' = Null
    /\ hpc' = "idle"
    /\ UNCHANGED h_path
    /\ UNCHANGED <<loopVars, isoVars>>

\* do_GET on /health: the dict display reads _polls_total; the body is sent
\* with status 200
DoGetRespond ==
    /\ hpc = "read_polls"
    /\ response' = [code |-> 200, body |-> TRUE, status |-> "ok",
                    last_poll |-> h_last_poll, polls_total |-> _polls_total]
    /\ served' = Committed
    /\ h_last_poll' = Null
    /\ hpc' = "idle"
    /\ UNCHANGED h_path
    /\ UNCHANGED <<loopVars, isoVars>>

\* every path is answered like /health would be: 200 and the snapshot
DoGetAnyPath ==
    /\ hpc = "get"
    /\ h_path # "/health"
    /\ response' = [code |-> 200, body |-> TRUE, status |-> "ok",
                    last_poll |-> _last_poll_ts, polls_total |-> _polls_total]
    /\ hpc' = "idle"
    /\ UNCHANGED <<h_path, h_last_poll, served>>
    /\ UNCHANGED <<loopVars, isoVars>>

\* do_GET on any other path: status 404, no body
DoGetNotFound ==
    /\ hpc = "get"
    /\ h_path # "/health"
    /\ response' = [NoResponse EXCEPT !.code = 404]
    /\ hpc' = "idle"
    /\ UNCHANGED <<h_path, h_last_poll, served>>
    /\ UNCHANGED <<loopVars, isoVars>>

\* the run loop for HealthCycles cycles, and the health thread
NextHealth ==
    \/ LoopEnter /\ now' <= HealthCycles
    \/ LoopExit
    \/ FetchBegin
    \/ FetchReturn
    \/ FetchRaise
    \/ Dedup
    \/ Parse
    \/ EncodeRaise
    \/ WriteReturn
    \/ WriteRaise
    \/ SetReading
    \/ SetPollTs
    \/ IncPolls
    \/ Reset
    \/ WaitInterval
    \/ WaitBackoff
    \/ Close
    \/ _handle_signal
    \/ HealthLoop
    \/ HealthStop
    \/ HealthTimeout
    \/ HealthRequest
    \/ DoGetReadLastPoll
    \/ DoGetRespond
    \/ DoGetNotFound

SpecHealth == Init /\ [][NextHealth]_vars

(***************************************************************************)
(* Shutdown: the run loop and the health thread under fair scheduling      *)
(***************************************************************************)
LiveCycles == 1

\* the steps of the main thread: every wait has a finite timeout, and a fetch
\* or write in flight returns or raises
RunStep ==
    \/ LoopEnter /\ now' <= LiveCycles
    \/ LoopExit
    \/ FetchBegin
    \/ FetchReturn
    \/ FetchRaise
    \/ Dedup
    \/ Parse
    \/ EncodeRaise
    \/ WriteReturn
    \/ WriteRaise
    \/ SetReading
    \/ SetPollTs
    \/ IncPolls
    \/ Reset
    \/ WaitInterval
    \/ WaitBackoff
    \/ Close

\* the steps of the health thread: handle_request returns within
\* server.timeout or with a handled request
HealthStep ==
    \/ HealthLoop
    \/ HealthStop
    \/ HealthTimeout
    \/ HealthRequest
    \/ DoGetReadLastPoll
    \/ DoGetRespond
    \/ DoGetNotFound

NextLive == RunStep \/ HealthStep \/ _handle_signal

\* both threads keep being scheduled; the signal may never come
SpecLive ==
    Init /\ [][NextLive]_vars /\ WF_vars(RunStep) /\ WF_vars(HealthStep)

ErrorOutcomes == {"fetch_error", "parse_error", "encode_error", "write_error"}
NormalOutcomes == {"written", "duplicate", "empty"}
Fetched == data.data_t # "nodata"
CycleEnded == outcome \in ErrorOutcomes \cup NormalOutcomes

\* the previous cycle wrote a non-empty batch and this cycle fetched the
\* same top-level timestamp
SameTsAfterWrite ==
    /\ Fetched
    /\ pre.outcome = "written"
    /\ pre.fetched
    /\ DeviceReadingAt(data) = pre.ts

\* the cycle is past the duplicate test and did nothing but skip
SkippedAsDuplicate ==
    /\ pc \notin {"parse", "write", "set_reading", "set_poll_ts", "inc_polls"}
    /\ outcome \in {"running", "duplicate"}
    /\ pc # "dedup" => outcome = "duplicate"
    /\ write_calls = pre.writes
    /\ _polls_total = pre.polls
    /\ consecutive_errors \in {0, pre.errors}

\* C1 as stated: after a successful non-empty write, a cycle that fetches the
\* same non-null top-level timestamp ends as skipped-duplicate, with no store
\* write and poll_count unchanged.
C1_DuplicateSkippedNonNull ==
    (SameTsAfterWrite /\ DeviceReadingAt(data) # Null) => SkippedAsDuplicate

\* C1 amended: after a successful non-empty write, a cycle that fetches the
\* same non-null and non-empty top-level timestamp ends as skipped-duplicate:
\* it never reaches normalize, encode or write, the store receives no call and
\* _polls_total is unchanged.
C1_DuplicateSkipped ==
    (SameTsAfterWrite /\ DeviceReadingAt(data) \notin {Null, EmptyStr})
        => SkippedAsDuplicate

C1_Witness ==
    /\ SameTsAfterWrite
    /\ DeviceReadingAt(data) = Iso(1)
    /\ pc = "wait_interval"
    /\ outcome = "duplicate"
    /\ _polls_total = 1
    /\ write_calls = 1

\* C2: the wait computed for attempt n >= 1 is min(2^n, 300): never above 300,
\* equal to 300 from n = 9 on, and not below the wait of any earlier attempt.
C2_BackoffGrowth ==
    (pc = "backoff_ret" /\ consecutive_errors >= 1) =>
        /\ consecutive_errors <= 30 => wait = Min(2 ^ consecutive_errors, 300)
        /\ wait <= 300
        /\ consecutive_errors >= 9 => wait = 300
        /\ \A m \in 1..consecutive_errors : _backoff_sleep(m) <= wait

C2_Witness ==
    /\ pc = "backoff_ret"
    /\ consecutive_errors = 9
    /\ wait = 300

\* C3: a cycle that raises (in fetch, normalize, encode or write) leaves the
\* counter at one more than before the cycle and a wait of
\* min(2^consecutive_errors, 300); a cycle that returns normally (written,
\* duplicate, empty) leaves the counter at 0 once run() has reset it. Three
\* failures in a row from 0 give the waits 2, 4, 8.
C3_FailureCounter ==
    /\ outcome \in ErrorOutcomes =>
          /\ pc \in {"wait_backoff", "loop", "close", "done"}
          /\ consecutive_errors = pre.errors + 1
          /\ wait = Min(2 ^ consecutive_errors, 300)
          /\ consecutive_errors = 1 => wait = 2
          /\ consecutive_errors = 2 => wait = 4
          /\ consecutive_errors = 3 => wait = 8
    /\ outcome \in NormalOutcomes =>
          /\ pc \in {"reset", "wait_interval", "loop", "close", "done"}
          /\ consecutive_errors = IF pc = "reset" THEN pre.errors ELSE 0
    /\ outcome = "running" => consecutive_errors = pre.errors

\* three fetch failures, then a cycle that returns normally
C3_Witness ==
    /\ pc = "wait_interval"
    /\ outcome \in NormalOutcomes
    /\ pre.outcome = "fetch_error"
    /\ pre.errors = 3
    /\ wait = 8
    /\ consecutive_errors = 0

\* C4: once a cycle has written its non-empty batch and returned,
\* _last_reading_at is the fetched top-level timestamp, _last_poll_ts is the
\* current time, _polls_total is one more than before the cycle, and
\* consecutive_errors is 0 once run() has reset it.
C4_WrittenUpdates ==
    outcome = "written" =>
        /\ _last_reading_at = DeviceReadingAt(data)
        /\ _last_poll_ts = Iso(now)
        /\ _polls_total = pre.polls + 1
        /\ write_calls = pre.writes + 1
        /\ last_record # <<>>
        /\ pc # "reset" => consecutive_errors = 0

C4_Witness ==
    /\ outcome = "written"
    /\ pc = "wait_interval"
    /\ pre.errors = 2
    /\ pre.reading = Iso(1)
    /\ pre.poll_ts = Iso(1)
    /\ _last_reading_at = Iso(2)
    /\ _last_poll_ts = Iso(4)
    /\ _polls_total = 2
    /\ consecutive_errors = 0

\* a cycle changes _polls_total by one at most, and only by writing at least
\* one point; every other outcome leaves it as it was
PollsOnlyOnWrite ==
    /\ _polls_total \in {pre.polls, pre.polls + 1}
    /\ _polls_total = pre.polls + 1 =>
          /\ outcome = "written"
          /\ write_calls = pre.writes + 1
          /\ Len(last_record) >= 1
    /\ outcome \in {"duplicate", "empty"} \cup ErrorOutcomes =>
          _polls_total = pre.polls

\* C5 as stated: _polls_total increases only in a cycle that wrote at least
\* one point, and whose fetched top-level timestamp was not the one already
\* recorded as last seen.
C5_PollsOnlyOnNewTimestamp ==
    /\ PollsOnlyOnWrite
    /\ _polls_total = pre.polls + 1 =>
          ~(DeviceReadingAt(data) # Null /\ DeviceReadingAt(data) = pre.reading)

\* C5 amended: _polls_total increases only in a cycle that wrote at least one
\* point, and whose fetched top-level timestamp was null, empty, or not the
\* one recorded as last seen; every other outcome leaves it unchanged.
C5_PollsOnlyOnNewData ==
    /\ PollsOnlyOnWrite
    /\ _polls_total = pre.polls + 1 =>
          \/ DeviceReadingAt(data) \in {Null, EmptyStr}
          \/ DeviceReadingAt(data) # pre.reading

C5_Witness ==
    /\ outcome = "written"
    /\ _polls_total = 2
    /\ pre.polls = 1
    /\ pre.reading = Iso(1)
    /\ DeviceReadingAt(data) = Iso(2)
    /\ pre.outcome = "duplicate"

\* C6 as stated: across a cycle, a timestamp held in _last_reading_at is never
\* replaced by an earlier timestamp or by null.
C6_LastSeenOnlyAdvances ==
    IsIso(pre.reading) =>
        /\ IsIso(_last_reading_at)
        /\ _last_reading_at.v >= pre.reading.v

\* an entry of the catalog with a value that is present and not numeric, for
\* which a timestamp resolves
NonNumericEntry(s, top) ==
    /\ SensorName(GetOr(s.id, Num(-1))) # ""
    /\ Get(s.value).t # "null"
    /\ ~FloatOk(Get(s.value))
    /\ PyOr(Get(s.last_reading_at), Get(top)).t # "null"

\* an entry that parse_sensors keeps
ValidEntry(s, top) ==
    /\ SensorName(GetOr(s.id, Num(-1))) # ""
    /\ FloatOk(Get(s.value))
    /\ PyOr(Get(s.last_reading_at), Get(top)).t # "null"

HasNonNumeric(d) ==
    /\ d.data_t = "dict"
    /\ d.sensors_t = "list"
    /\ \E i \in 1..Len(d.sensors) : NonNumericEntry(d.sensors[i], d.last_reading_at)

HasValid(d) ==
    /\ d.data_t = "dict"
    /\ d.sensors_t = "list"
    /\ \E i \in 1..Len(d.sensors) : ValidEntry(d.sensors[i], d.last_reading_at)

\* C7 as stated: a cycle whose document holds a non-numeric value beside valid
\* entries does not take the failure path (the counter is not incremented),
\* and past normalization it holds the valid entries' readings or has
\* written them.
C7_NonNumericSkipped ==
    (HasNonNumeric(data) /\ HasValid(data)) =>
        /\ outcome # "parse_error"
        /\ consecutive_errors <= pre.errors
        /\ pc = "write" => readings # <<>>

\* C8 as stated: parse_sensors returns a list, and raises nothing, for every
\* document shape; here on the documents that hold no non-numeric value.
C8_ParseNeverRaises ==
    (pc = "parse_ret" /\ ~HasNonNumeric(data)) => outcome = "returned"

\* the entries of the document d that could stand behind the reading r
SourcesOf(r, d) ==
    {j \in 1..Len(d.sensors) :
        /\ d.sensors[j].id = Num(r.sensor_id)
        /\ d.sensors[j].value.t \in {"num", "numstr"}
        /\ d.sensors[j].value.v = r.value}

\* C9: every reading parse_sensors returns has a sensor_id of the catalog, the
\* catalog's name for it, and the non-null value of an entry of the document
\* with that id; there are no more readings than entries with a catalog id and
\* a value.
C9_OnlyCatalogNonNull ==
    (pc = "parse_ret" /\ outcome = "returned") =>
        /\ \A i \in 1..Len(readings) :
              /\ readings[i].sensor_id \in DOMAIN SENSOR_NAME_MAP
              /\ readings[i].sensor_name = SENSOR_NAME_MAP[readings[i].sensor_id]
              /\ SourcesOf(readings[i], data) # {}
        /\ Len(readings) <=
              Cardinality({j \in 1..Len(data.sensors) :
                  /\ data.sensors[j].id.t = "num"
                  /\ data.sensors[j].id.v \in DOMAIN SENSOR_NAME_MAP
                  /\ data.sensors[j].value.t \notin {"absent", "null"}})

\* a document with an unmapped id, a null value and an absent value, of which
\* only the one valid entry is returned
C9_Witness ==
    /\ pc = "parse_ret"
    /\ outcome = "returned"
    /\ Len(data.sensors) = 2
    /\ Len(readings) = 1
    /\ data.sensors[2].id = Num(9999)
    /\ data.sensors[2].value = Num(214)
    /\ readings[1].sensor_id = 55
    /\ readings[1].sensor_name = "temperature"

\* C10: when write_api.write raises, the cycle ends on the backoff path: the
\* counter is one more than before, the wait is min(2^consecutive_errors, 300),
\* _last_reading_at, _last_poll_ts and _polls_total are as before the cycle,
\* and the readings are gone. No record holds anything but the lines of the
\* readings of the cycle's own document.
C10_WriteFailure ==
    /\ outcome = "write_error" =>
          /\ pc \in {"wait_backoff", "loop", "close", "done"}
          /\ consecutive_errors = pre.errors + 1
          /\ wait = Min(2 ^ consecutive_errors, 300)
          /\ _last_reading_at = pre.reading
          /\ _last_poll_ts = pre.poll_ts
          /\ _polls_total = pre.polls
          /\ readings = <<>>
    /\ pc \in {"set_reading", "set_poll_ts", "inc_polls"} =>
          last_record = Lines(parse_sensors(data).readings, SCK_DEVICE_ID)

\* a write failure after an earlier write, then a write of the next document
C10_Witness ==
    /\ pre.outcome = "write_error"
    /\ pre.errors = 1
    /\ pre.polls = 1
    /\ pre.reading = Iso(1)
    /\ pre.ts = Iso(2)
    /\ pre.writes = 2
    /\ pc = "set_reading"
    /\ write_calls = 3

\* C12: whatever the outcomes of the cycles were (success, network/HTTP error,
\* any other exception), the poll loop is left only with the termination flag
\* set: in every state where the loop has exited, the flag is true.
C12_ExitOnlyOnFlag ==
    pc \in {"close", "done"} => _shutdown_event

\* the loop has exited after a network error followed by another exception
C12_Witness ==
    /\ pc = "done"
    /\ pre.outcome = "fetch_error"
    /\ outcome = "write_error"
    /\ consecutive_errors = 2

\* C14: the store connection is closed exactly once and only after the poll
\* loop has exited: close has been called once when run() is done and never
\* before, the loop was left with the flag set, the step that leaves the
\* position after the loop is the one call of close, and no step taken after
\* close writes to the store or closes again.
C14_ClosedOnce ==
    /\ [](/\ closed = (IF pc = "done" THEN 1 ELSE 0)
          /\ pc \in {"close", "done"} => _shutdown_event)
    /\ [][/\ pc = "close" /\ pc' # "close" => pc' = "done" /\ closed' = 1
          /\ closed >= 1 => write_calls' = write_calls /\ closed' = closed]_vars

\* run() is done after two store writes and one close
C14_Witness ==
    /\ pc = "done"
    /\ closed = 1
    /\ write_calls = 2

\* C16: the wait after a cycle is chosen by the cycle's outcome only. After a
\* cycle that returned normally (written, duplicate, empty) the loop has
\* waited the poll interval and nothing else; after a failed cycle it has
\* waited min(2^consecutive_errors, 300) and not the poll interval; and the
\* counter and the wait are the same whichever except clause handled the
\* failure. No wait happens inside a cycle.
C16_WaitByOutcome ==
    /\ (pc \in {"loop", "close", "done"} /\ outcome \in NormalOutcomes) =>
          /\ handler = "none"
          /\ slept = POLL_INTERVAL_SECONDS
    /\ (pc \in {"loop", "close", "done"} /\ outcome \in ErrorOutcomes) =>
          /\ handler \in {"request", "exception"}
          /\ consecutive_errors = pre.errors + 1
          /\ wait = Min(2 ^ consecutive_errors, 300)
          /\ slept = wait
    /\ pc \notin {"loop", "close", "done"} => slept = 0

\* a failure handled as "any other exception", then a network error: the
\* second backoff wait of 4 seconds is over
C16_Witness ==
    /\ pc = "loop"
    /\ pre.outcome = "parse_error"
    /\ outcome = "fetch_error"
    /\ handler = "request"
    /\ slept = 4

\* C13 as stated: no fetch is begun in any state after the termination flag
\* became true.
C13_NoFetchAfterFlag ==
    late_fetches = 0

\* C13 amended: once the termination flag is set, the loop test never lets a
\* new cycle begin: every step that leaves the loop test with the flag set
\* goes to the end of run(). A fetch begins after the flag was set at most
\* once, in the cycle whose loop test preceded the signal; a fetch or write
\* in flight when the flag was set finishes.
C13_NoCycleAfterFlag ==
    /\ [](late_fetches <= 1)
    /\ [][(pc = "loop" /\ pc' # "loop" /\ _shutdown_event) => pc' = "close"]_vars
    /\ [][(late_fetches' # late_fetches) =>
              (pc = "poll" /\ _shutdown_event /\ late_fetches = 0)]_vars

\* the signal arrived between the loop test and the fetch; that cycle wrote
\* and run() is done
C13_Witness ==
    /\ late_fetches = 1
    /\ outcome = "written"
    /\ pc = "done"

\* C19: for every valid whole-second timestamp t, _iso_to_ns(t + 60 seconds)
\* is _iso_to_ns(t) + 60_000_000_000, and _iso_to_ns(t) is exactly the epoch
\* seconds of t times 10^9.
C19_IsoToNsExact ==
    /\ Len(ns) >= 1 => ns[1] = TimesGiga(timestamp(fromisoformat(iso_in)))
    /\ Len(ns) = 2 => ns[2] = AddBits(ns[1], TimesGiga(FromNat(60)), 0)

\* C17: for every non-empty list of normalized readings (timestamps ISO-8601),
\* write_to_influxdb obtains one write API and issues exactly one write call;
\* the record holds one line per reading, in input order, each with
\* measurement sck_sensors, tag device_id, tag sensor_name, field value and
\* the timestamp _iso_to_ns gives; when the store accepts the write the
\* function returns the number of readings.
C17_OneLinePerReading ==
    (/\ pc = "write_ret"
     /\ readings # <<>>
     /\ \A i \in 1..Len(readings) : IsIso(readings[i].timestamp)) =>
        /\ write_apis = 1
        /\ write_calls = 1
        /\ Len(last_record) = Len(readings)
        /\ \A i \in 1..Len(readings) :
              /\ last_record[i].measurement = "sck_sensors"
              /\ last_record[i].device_id = SCK_DEVICE_ID
              /\ last_record[i].sensor_name = readings[i].sensor_name
              /\ last_record[i].value = readings[i].value
              /\ last_record[i].ts_ns = _iso_to_ns(readings[i].timestamp)
        /\ outcome = "returned" => count = Len(readings)

\* two readings of different sensors, values and times written in one call
C17_Witness ==
    /\ pc = "write_ret"
    /\ outcome = "returned"
    /\ Len(readings) = 2
    /\ readings[1].sensor_name = "noise_dba"
    /\ readings[2].sensor_name = "temperature"
    /\ readings[1].timestamp = Iso(2)
    /\ readings[2].timestamp = Iso(1)
    /\ readings[1].value # readings[2].value
    /\ count = 2
    /\ Len(last_record) = 2

\* C11: the store is never written with an empty record set. A call of
\* write_to_influxdb with an empty readings list returns 0 and has obtained
\* no write API and called no write; every record a write received has at
\* least one line; and a poll cycle whose normalized set is empty ends
\* without any store call and is no failure: no except clause ran, the wait
\* after it is the poll interval, and consecutive_errors is 0 after the cycle.
C11_NoEmptyWrite ==
    /\ (pc = "write_ret" /\ readings = <<>>) =>
          /\ outcome = "returned"
          /\ count = 0
          /\ write_apis = 0
          /\ write_calls = 0
          /\ last_record = <<>>
    /\ (pc = "write_ret" /\ write_calls > 0) => last_record # <<>>
    /\ pc \in {"set_reading", "set_poll_ts", "inc_polls"} => last_record # <<>>
    /\ outcome = "empty" =>
          /\ pc \in {"reset", "wait_interval", "loop", "close", "done"}
          /\ write_apis = 0
          /\ write_calls = pre.writes
          /\ last_record = <<>>
          /\ handler = "none"
          /\ consecutive_errors = (IF pc = "reset" THEN pre.errors ELSE 0)
          /\ pc \in {"loop", "close", "done"} => slept = POLL_INTERVAL_SECONDS

\* write_to_influxdb has returned from a call with an empty list
C11_Witness ==
    /\ pc = "write_ret"
    /\ readings = <<>>
    /\ count = 0
    /\ outcome = "returned"

\* C15: under any interleaving of the health thread with the poll loop, the
\* pair (last_poll, polls_total) of a /health response is a pair PollState
\* held initially or at the end of a completed cycle, never a mix of values
\* from before and after the updates of a cycle in flight.
C15_CommittedSnapshot ==
    response.code = 200 =>
        <<response.last_poll, response.polls_total>> \in served

\* C18: a GET on /health is answered with status 200 and a document with
\* status "ok", last_poll (the value of _last_poll_ts, an ISO time or null)
\* and polls_total (the value of _polls_total), each as read while the request
\* is handled; a GET on any other path is answered with status 404 and no
\* document.
C18_HealthResponse ==
    /\ [](/\ response.code \in {0, 200, 404}
          /\ response.code = 200 =>
                h_path = "/health" /\ response.body /\ response.status = "ok"
          /\ response.code = 404 =>
                h_path # "/health" /\ response = [NoResponse EXCEPT !.code = 404]
          /\ hpc \in {"get", "read_polls"} => response = NoResponse)
    /\ [][(hpc = "get" /\ hpc' # "get") =>
             IF h_path = "/health"
             THEN hpc' = "read_polls" /\ h_last_poll' = _last_poll_ts
                  /\ response' = NoResponse
             ELSE hpc' = "idle" /\ response'.code = 404]_vars
    /\ [][(hpc = "read_polls" /\ hpc' # "read_polls") =>
             /\ hpc' = "idle"
             /\ response'.code = 200
             /\ response'.last_poll = h_last_poll
             /\ response'.polls_total = _polls_total]_vars

\* /health answered after one successful poll
C18_Witness ==
    /\ response.code = 200
    /\ response.status = "ok"
    /\ response.last_poll = Iso(1)
    /\ response.polls_total = 1
    /\ h_path = "/health"

\* the timestamp the claim resolves for an entry: its own when it has one
\* (a non-empty text), otherwise the payload's top-level one, otherwise none
ResolvedTs(s, top) ==
    IF Truthy(Get(s.last_reading_at)) THEN Get(s.last_reading_at)
    ELSE IF Truthy(Get(top)) THEN Get(top)
    ELSE Null

\* the entries of the claim's filter, in input order, as readings
RECURSIVE KeptBy(_, _)
KeptBy(sensors_raw, top) ==
    IF sensors_raw = <<>> THEN <<>>
    ELSE LET s == Head(sensors_raw)
             sid == GetOr(s.id, Num(-1))
             keep == /\ sid.t = "num"
                     /\ sid.v \in DOMAIN SENSOR_NAME_MAP
                     /\ Get(s.value).t # "null"
                     /\ ResolvedTs(s, top).t # "null"
         IN  (IF keep
              THEN <<[sensor_id |-> sid.v,
                      sensor_name |-> SENSOR_NAME_MAP[sid.v],
                      value |-> Get(s.value).v,
                      timestamp |-> ResolvedTs(s, top)]>>
              ELSE <<>>) \o KeptBy(Tail(sensors_raw), top)

\* C20: when parse_sensors returns, its output is the input sensor sequence
\* filtered, in input order, to the entries whose id is in the catalog, whose
\* value is non-null and for which a timestamp resolves; a kept reading has
\* the entry's own timestamp when it has one, otherwise the payload's
\* top-level one; an entry with neither is skipped.
C20_FilteredInOrder ==
    (pc = "parse_ret" /\ outcome = "returned" /\ data.data_t = "dict"
     /\ data.sensors_t = "list") =>
        readings = KeptBy(data.sensors, data.last_reading_at)

\* the previous cycle's store write failed and this cycle fetched the same
\* top-level timestamp
SameTsAfterFailure ==
    /\ Fetched
    /\ pre.outcome = "write_error"
    /\ pre.fetched
    /\ DeviceReadingAt(data) = pre.ts

\* C21: a failed store write for timestamp T leaves T unsuppressed: the next
\* cycle that fetches the same T is not skipped as a duplicate, it normalizes
\* and, when readings result, calls the store again. A cycle is skipped only
\* for the last-seen timestamp, and the last-seen timestamp is only ever set
\* to the fetched one after the cycle's own store write returned.
C21_RetryAfterWriteFailure ==
    /\ [](outcome = "write_error" =>
             ~(Truthy(DeviceReadingAt(data))
               /\ DeviceReadingAt(data) = _last_reading_at))
    /\ [](SameTsAfterFailure =>
             /\ outcome # "duplicate"
             /\ (/\ pc \notin {"dedup", "parse"}
                 /\ ~parse_sensors(data).raised
                 /\ parse_sensors(data).readings # <<>>) =>
                   (pc = "write" \/ write_apis = 1))
    /\ [](outcome = "duplicate" =>
             /\ Truthy(DeviceReadingAt(data))
             /\ DeviceReadingAt(data) = _last_reading_at)
    /\ [][_last_reading_at' # _last_reading_at =>
             /\ pc = "set_reading"
             /\ write_calls = pre.writes + 1
             /\ count = Len(readings)
             /\ _last_reading_at' = DeviceReadingAt(data)]_vars

\* the write for timestamp 1 failed; the next cycle fetched timestamp 1 again
\* and its write returned
C21_Witness ==
    /\ SameTsAfterFailure
    /\ DeviceReadingAt(data) = Iso(1)
    /\ pre.reading = Null
    /\ pc = "set_reading"
    /\ write_calls = 2

\* C22: once the termination flag is set, the poll loop eventually exits from
\* wherever it is (interval wait, backoff wait, mid-cycle), the store
\* connection is closed, and the health server's accept loop stops. A wait
\* that the flag ends returns with the flag's value: a set flag interrupts the
\* interval wait and the backoff wait.
C22_ShutdownLiveness ==
    /\ _shutdown_event ~> (pc = "done" /\ closed = 1)
    /\ _shutdown_event ~> (hpc = "stopped")
    /\ [][(pc \in {"wait_interval", "wait_backoff"} /\ pc' # pc) =>
             (pc' = "loop" /\ woken' = _shutdown_event)]_vars
    /\ []((pc = "loop" /\ woken) => _shutdown_event)

\* the flag was set during a backoff wait; the wait was interrupted, run() is
\* done and the health server has stopped
C22_Witness ==
    /\ pc = "done"
    /\ closed = 1
    /\ hpc = "stopped"
    /\ woken
    /\ outcome \in ErrorOutcomes
    /\ late_fetches = 0

\* C23: the health responder can answer a /health request in every state of
\* the poll loop: whatever the main thread is at (interval wait, fetching,
\* writing, backoff wait), the health thread's next step is enabled, up to
\* the response; and whatever the health thread is at, the next step of the
\* poll cycle is enabled.
C23_HealthNeverBlocked ==
    /\ (hpc = "idle" /\ ~_shutdown_event) => ENABLED HealthLoop
    /\ hpc = "accept" => ENABLED HealthRequest
    /\ (hpc = "get" /\ h_path = "/health") => ENABLED DoGetReadLastPoll
    /\ (hpc = "get" /\ h_path # "/health") => ENABLED DoGetNotFound
    /\ hpc = "read_polls" => ENABLED DoGetRespond
    /\ pc \notin {"loop", "done"} => ENABLED RunStep
    /\ (pc = "loop" /\ _shutdown_event) => ENABLED LoopExit
    /\ (pc = "loop" /\ ~_shutdown_event /\ now < HealthCycles) => ENABLED LoopEnter

\* a /health request is being answered while the store write is in flight,
\* after an answer given during the fetch of the cycle before
C23_Witness ==
    /\ hpc = "read_polls"
    /\ pc = "write"
    /\ ~_shutdown_event
    /\ now = 2

\* the shared values of the two threads: PollState and the termination flag
PollState == <<_last_poll_ts, _polls_total, _last_reading_at>>

\* C24: single-writer discipline.  A step of the health thread (whatever the
\* path of the request) leaves _last_poll_ts, _polls_total, _last_reading_at
\* and the termination flag unchanged; PollState changes only at the three
\* assignments that end a successful poll cycle; and the termination flag,
\* once set, is never cleared.
C24_SingleWriter ==
    /\ [][healthVars' # healthVars =>
             (PollState' = PollState /\ _shutdown_event' = _shutdown_event)]_vars
    /\ [][PollState' # PollState =>
             (pc \in {"set_reading", "set_poll_ts", "inc_polls"}
              /\ healthVars' = healthVars)]_vars
    /\ [][_shutdown_event => _shutdown_event']_vars

\* a request for another path was answered after a completed cycle and after
\* the signal, and the loop went on to its end
C24_Witness ==
    /\ response.code = 404
    /\ hpc = "stopped"
    /\ _polls_total = 1
    /\ _shutdown_event
    /\ pc = "done"

\* C25: duplicate suppression remembers only the most recent successfully
\* written timestamp.  The duplicate test ends the cycle as skipped-duplicate
\* exactly when the fetched top-level timestamp is non-empty and equals the
\* top-level timestamp of the most recent cycle whose store write returned
\* (stored_at); a cycle ends as skipped-duplicate only at that test; and a
\* cycle that ends empty, or with a failed write, or with any other failure,
\* leaves the remembered timestamp as it found it.
C25_SuppressesLastStored ==
    /\ [][(pc = "dedup" /\ pc' # pc) =>
             ((outcome' = "duplicate") <=>
                  (/\ DeviceReadingAt(data) \notin {Null, EmptyStr}
                   /\ DeviceReadingAt(data) = stored_at))]_vars
    /\ [][(outcome' = "duplicate" /\ outcome # "duplicate") =>
             pc = "dedup"]_vars
    /\ []((CycleEnded /\ outcome # "written") =>
             (_last_reading_at = pre.reading /\ write_calls >= pre.writes))
    /\ []((pc = "dedup" /\ stored_at # NoStore) =>
             _last_reading_at = stored_at)

\* timestamp 1 was stored, then timestamp 2 arrived with an empty set, then
\* timestamp 2 arrived again and was not skipped
C25_Witness ==
    /\ stored_at = Iso(1)
    /\ pre.outcome = "empty"
    /\ pre.ts = Iso(2)
    /\ DeviceReadingAt(data) = Iso(2)
    /\ pc = "parse"

\* the fetched document has no top-level timestamp: null or empty
NoTopTimestamp ==
    Fetched /\ DeviceReadingAt(data) \in {Null, EmptyStr}

\* every sensor entry of the fetched document carries its own timestamp and
\* normalizes to a reading
OwnTimestamps ==
    /\ data.data_t = "dict"
    /\ data.sensors_t = "list"
    /\ data.sensors # <<>>
    /\ \A i \in 1..Len(data.sensors) : IsIso(data.sensors[i].last_reading_at)
    /\ ~parse_sensors(data).raised
    /\ Len(parse_sensors(data).readings) = Len(data.sensors)

\* C26: a cycle whose fetched document has a null or empty top-level
\* timestamp is never skipped as a duplicate, whatever _last_reading_at
\* holds.  If its sensor entries carry their own timestamps, the cycle calls
\* the store with them, and when the store accepts the write it increments
\* _polls_total; this on every such cycle, a cycle that follows an identical
\* written one included.
C26_NoTimestampNeverSkipped ==
    /\ NoTopTimestamp => outcome # "duplicate"
    /\ (NoTopTimestamp /\ OwnTimestamps) =>
           /\ pc \in {"write", "set_reading", "set_poll_ts", "inc_polls"} =>
                  readings = parse_sensors(data).readings
           /\ pc \notin {"dedup", "parse", "write"} =>
                  write_calls = pre.writes + 1
    /\ (NoTopTimestamp /\ OwnTimestamps /\ CycleEnded) =>
           /\ outcome \in {"written", "write_error"}
           /\ outcome = "written" =>
                  /\ _polls_total = pre.polls + 1
                  /\ last_record =
                         Lines(parse_sensors(data).readings, SCK_DEVICE_ID)

\* two consecutive cycles fetched a document with an empty top-level
\* timestamp and entries of their own timestamps, and both were written
C26_Witness ==
    /\ NoTopTimestamp
    /\ OwnTimestamps
    /\ DeviceReadingAt(data) = EmptyStr
    /\ pre.ts = EmptyStr
    /\ pre.outcome = "written"
    /\ _last_reading_at = EmptyStr
    /\ outcome = "written"
    /\ _polls_total = 2

\* C27: at most one poll cycle begins after the termination flag has been
\* set.  When the signal arrives between the loop test and the fetch, that
\* one cycle runs to its end; the wait that follows it (poll interval or
\* backoff) is ended by the flag, not by its timeout; the loop test that
\* follows ends the loop; and no further fetch is begun.
C27_OneLateCycle ==
    /\ [](late_fetches <= 1)
    /\ [](late_fetches = 1 => _shutdown_event)
    /\ [][(late_fetches = 1 /\ pc' # pc) =>
             CASE pc \in {"wait_interval", "wait_backoff"} ->
                      pc' = "loop" /\ woken'
               [] pc = "loop" -> pc' = "close"
               [] pc = "close" -> pc' = "done"
               [] OTHER -> pc' \notin {"poll", "fetch", "close", "done"}]_vars
    /\ [][late_fetches = 1 => now' = now]_vars

\* the signal arrived between the loop test and the fetch; the cycle failed,
\* the backoff wait was ended by the flag and run() is done after that one
\* cycle
C27_Witness ==
    /\ late_fetches = 1
    /\ outcome = "write_error"
    /\ woken
    /\ now = 1
    /\ pc = "done"

====
